---- MODULE Spec2Model ----
(***************************************************************************)
(* The React calculator of react_calculator: the Calculator component      *)
(* (input string, keypad, C and '='), the CalculatorProvider context       *)
(* (history list persisted in localStorage under 'calculatorHistory').     *)
(*                                                                         *)
(* handleCalculate evaluates the input with the JavaScript eval of the     *)
(* host.  The part of the language that the strings reachable in the       *)
(* calculator can exercise is modelled here as the engine computes it:     *)
(* comments, numeric literals of strict-mode code, the identifiers         *)
(* Infinity and NaN, regular expression literals, the update operators     *)
(* ++ and --, unary + and -, ** (right associative), * and /, + and -      *)
(* (with string concatenation), IEEE-754 zero, infinity and NaN rules,     *)
(* and Number.prototype.toString.                                          *)
(*                                                                         *)
(* Strings are sequences of one-character strings.                         *)
(***************************************************************************)
EXTENDS Integers, Sequences, FiniteSets, TLC

(***************************************************************************)
(* Bounds of the model.                                                    *)
(***************************************************************************)
\* keypad presses (other than C and '=') in one behaviour
MaxKeys == 3
\* records in the history list
MaxHistory == 2
\* length of the input strings the evaluation is checked on (SpecEval)
MaxLen == 5
\* page loads (mounts of the provider) in one behaviour
MaxMounts == 2
\* largest numerator and denominator of a number the model computes with
MaxNum == 9999
MaxDen == 1000

(***************************************************************************)
(* Characters.                                                             *)
(***************************************************************************)
Digits == {"0", "1", "2", "3", "4", "5", "6", "7", "8", "9"}

\* the letters of the strings Number.prototype.toString can produce here
IdStartChars == {"I", "n", "f", "i", "t", "y", "N", "a"}

IdPartChars == IdStartChars \cup Digits

\* the flags a regular expression literal accepts
ValidFlags == {"d", "g", "i", "m", "s", "u", "v", "y"}

DigitVal(c) ==
  CASE c = "0" -> 0 [] c = "1" -> 1 [] c = "2" -> 2 [] c = "3" -> 3
    [] c = "4" -> 4 [] c = "5" -> 5 [] c = "6" -> 6 [] c = "7" -> 7
    [] c = "8" -> 8 [] c = "9" -> 9

DigitChar(n) == <<"0", "1", "2", "3", "4", "5", "6", "7", "8", "9">>[n + 1]

At(s, p) == IF p >= 1 /\ p <= Len(s) THEN s[p] ELSE ""

Infinity == <<"I", "n", "f", "i", "n", "i", "t", "y">>

NaN == <<"N", "a", "N">>

(***************************************************************************)
(* Values of the language.  t is the type tag; a number is the rational    *)
(* n/d in lowest terms and z tells a zero to be -0; an infinity is         *)
(* negative when z; a string or a regular expression carries its text s;   *)
(* "throw" is an exception of kind s[1] raised at run time; "ood" is a     *)
(* number outside the domain of the model (see MkNum).                     *)
(***************************************************************************)
Val(t, n, d, z, s) == [t |-> t, n |-> n, d |-> d, z |-> z, s |-> s]

Num(n, d) == Val("num", n, d, FALSE, <<>>)

Zero(neg) == Val("num", 0, 1, neg, <<>>)

Inf(neg) == Val("inf", 0, 1, neg, <<>>)

NaNV == Val("nan", 0, 1, FALSE, <<>>)

StrV(s) == Val("str", 0, 1, FALSE, s)

RegexV(s) == Val("regex", 0, 1, FALSE, s)

Undefined == Val("undefined", 0, 1, FALSE, <<>>)

Throw(kind) == Val("throw", 0, 1, FALSE, <<kind>>)

OOD == Val("ood", 0, 1, FALSE, <<>>)

(***************************************************************************)
(* Rational arithmetic for the finite doubles of the model.                *)
(***************************************************************************)
Abs(x) == IF x < 0 THEN -x ELSE x

RECURSIVE Gcd(_, _)
Gcd(a, b) == IF b = 0 THEN a ELSE Gcd(b, a % b)

RECURSIVE Strip(_, _)
\* d with every factor f removed
Strip(d, f) == IF d % f = 0 THEN Strip(d \div f, f) ELSE d

\* a double holds n/d exactly when d is a power of two
IsPow2(d) == Strip(d, 2) = 1

\* n/d has a finite decimal expansion
IsDecimal(d) == Strip(Strip(d, 2), 5) = 1

\* The double nearest to n/d (d > 0).  The model computes with the numbers
\* whose decimal expansion is finite and short: for these the double
\* nearest to n/d is the one the literal of n/d denotes, and toString gives
\* that literal back.  Any other number is outside the domain ("ood").
MkNum(n, d) ==
  LET g == Gcd(Abs(n), d)
      nn == n \div g
      dd == d \div g
  IN IF n = 0 THEN Zero(FALSE)
     ELSE IF Abs(nn) > MaxNum \/ dd > MaxDen \/ ~IsDecimal(dd) THEN OOD
     ELSE Num(nn, dd)

\* the double of v is exactly n/d
Exact(v) == v.t = "num" /\ IsPow2(v.d)

IsZero(v) == v.t = "num" /\ v.n = 0

\* the sign bit of a number or infinity
Negative(v) == IF v.t = "num" /\ v.n # 0 THEN v.n < 0 ELSE v.z

(***************************************************************************)
(* Number.prototype.toString and ToString.                                 *)
(***************************************************************************)
RECURSIVE IntDigits(_)
IntDigits(n) ==
  IF n < 10 THEN <<DigitChar(n)>>
  ELSE IntDigits(n \div 10) \o <<DigitChar(n % 10)>>

RECURSIVE FracDigits(_, _)
\* the decimal digits of r/d, 0 <= r < d, by long division
FracDigits(r, d) ==
  IF r = 0 THEN <<>>
  ELSE <<DigitChar((r * 10) \div d)>> \o FracDigits((r * 10) % d, d)

NumberToString(v) ==
  IF v.t = "nan" THEN NaN
  ELSE IF v.t = "inf" THEN (IF v.z THEN <<"-">> ELSE <<>>) \o Infinity
  ELSE LET a == Abs(v.n)
           frac == FracDigits(a % v.d, v.d)
       IN (IF v.n < 0 THEN <<"-">> ELSE <<>>)
          \o IntDigits(a \div v.d)
          \o (IF frac = <<>> THEN <<>> ELSE <<".">> \o frac)

IsStringy(v) == v.t \in {"str", "regex"}

\* ToString of a value that is not an exception
ToStr(v) == IF IsStringy(v) THEN v.s ELSE NumberToString(v)

\* ToNumber: every string the calculator can build holds a '/' and every
\* regular expression converts through its source text, so both give NaN
ToNumber(v) == IF IsStringy(v) \/ v.t = "undefined" THEN NaNV ELSE v

(***************************************************************************)
(* The arithmetic of doubles on the numbers of the model.  An operation    *)
(* on two exact operands is the correctly rounded exact result (MkNum);    *)
(* an operation whose operand is only the nearest double of its decimal    *)
(* is computed when it is an identity and is outside the domain otherwise. *)
(***************************************************************************)
Negate(v) ==
  IF v.t = "num" THEN Val("num", -v.n, v.d, (v.n = 0 /\ ~v.z), <<>>)
  ELSE IF v.t = "inf" THEN Inf(~v.z)
  ELSE v

WithSign(v, neg) == IF Negative(v) = neg THEN v ELSE Negate(v)

IsOne(v) == v.t = "num" /\ Abs(v.n) = 1 /\ v.d = 1

NumAdd(a, b) ==
  IF a.t = "nan" \/ b.t = "nan" THEN NaNV
  ELSE IF a.t = "inf" /\ b.t = "inf" THEN (IF a.z = b.z THEN a ELSE NaNV)
  ELSE IF a.t = "inf" THEN a
  ELSE IF b.t = "inf" THEN b
  ELSE IF IsZero(a) /\ IsZero(b) THEN Zero(a.z /\ b.z)
  ELSE IF IsZero(a) THEN b
  ELSE IF IsZero(b) THEN a
  ELSE IF Exact(a) /\ Exact(b)
       THEN MkNum(a.n * b.d + b.n * a.d, a.d * b.d)
  ELSE OOD

NumSub(a, b) == NumAdd(a, Negate(b))

NumMul(a, b) ==
  LET neg == Negative(a) # Negative(b)
  IN IF a.t = "nan" \/ b.t = "nan" THEN NaNV
     ELSE IF a.t = "inf" \/ b.t = "inf"
          THEN (IF IsZero(a) \/ IsZero(b) THEN NaNV ELSE Inf(neg))
     ELSE IF IsZero(a) \/ IsZero(b) THEN Zero(neg)
     ELSE IF IsOne(a) THEN WithSign(b, neg)
     ELSE IF IsOne(b) THEN WithSign(a, neg)
     ELSE IF Exact(a) /\ Exact(b) THEN MkNum(a.n * b.n, a.d * b.d)
     ELSE OOD

NumDiv(a, b) ==
  LET neg == Negative(a) # Negative(b)
  IN IF a.t = "nan" \/ b.t = "nan" THEN NaNV
     ELSE IF a.t = "inf" THEN (IF b.t = "inf" THEN NaNV ELSE Inf(neg))
     ELSE IF b.t = "inf" THEN Zero(neg)
     ELSE IF IsZero(b) THEN (IF IsZero(a) THEN NaNV ELSE Inf(neg))
     ELSE IF IsZero(a) THEN Zero(neg)
     ELSE IF IsOne(b) THEN WithSign(a, neg)
     ELSE IF Exact(a) /\ Exact(b)
          THEN MkNum((IF neg THEN -1 ELSE 1) * Abs(a.n) * b.d, a.d * Abs(b.n))
     ELSE OOD

RECURSIVE PowAcc(_, _, _)
\* acc * base^e for an integer e >= 0
PowAcc(acc, base, e) ==
  IF e = 0 THEN acc
  ELSE LET r == NumMul(acc, base)
       IN IF r.t = "ood" THEN OOD ELSE PowAcc(r, base, e - 1)

\* |v| compared with 1: -1, 0 or 1 (an infinity is larger)
CmpOne(v) ==
  IF v.t = "inf" THEN 1
  ELSE IF Abs(v.n) > v.d THEN 1
  ELSE IF Abs(v.n) = v.d THEN 0
  ELSE -1

\* Number::exponentiate
NumPow(a, b) ==
  LET oddInt == b.t = "num" /\ b.d = 1 /\ b.n % 2 = 1
      neg == Negative(a) /\ oddInt
  IN IF b.t = "nan" THEN NaNV
     ELSE IF IsZero(b) THEN Num(1, 1)
     ELSE IF a.t = "nan" THEN NaNV
     ELSE IF b.t = "inf"
          THEN (IF CmpOne(a) = 0 THEN NaNV
                ELSE IF (CmpOne(a) = 1) # b.z THEN Inf(FALSE)
                ELSE Zero(FALSE))
     ELSE IF a.t = "inf" THEN (IF Negative(b) THEN Zero(neg) ELSE Inf(neg))
     ELSE IF IsZero(a) THEN (IF Negative(b) THEN Inf(neg) ELSE Zero(neg))
     ELSE IF a = Num(1, 1) THEN a
     ELSE IF b.d # 1 THEN (IF Negative(a) THEN NaNV ELSE OOD)
     ELSE IF ~Exact(a) THEN OOD
     ELSE LET p == PowAcc(Num(1, 1), a, Abs(b.n))
              r == IF p.t = "ood" THEN OOD
                   ELSE IF b.n > 0 THEN p
                   ELSE NumDiv(Num(1, 1), p)
          IN IF r.t = "ood" \/ ~Exact(r) THEN OOD ELSE r

\* a binary operator applied to two evaluated operands, the left one first
BinOp(op, a, b) ==
  IF a.t = "throw" THEN a
  ELSE IF b.t = "throw" THEN b
  ELSE IF a.t = "ood" \/ b.t = "ood" THEN OOD
  ELSE IF op = "+" /\ (IsStringy(a) \/ IsStringy(b))
       THEN StrV(ToStr(a) \o ToStr(b))
  ELSE LET x == ToNumber(a)
           y == ToNumber(b)
       IN CASE op = "+" -> NumAdd(x, y)
            [] op = "-" -> NumSub(x, y)
            [] op = "*" -> NumMul(x, y)
            [] op = "/" -> NumDiv(x, y)
            [] op = "**" -> NumPow(x, y)

\* unary + and -
UnaryOp(op, a) ==
  IF a.t \in {"throw", "ood"} THEN a
  ELSE IF op = "-" THEN Negate(ToNumber(a))
  ELSE ToNumber(a)

(***************************************************************************)
(* The lexical grammar: comments, numeric literals, identifiers and        *)
(* regular expression literals.  Positions are indices into the source     *)
(* text; 0 stands for a lexical error.                                     *)
(***************************************************************************)
RECURSIVE RunEnd(_, _, _)
\* the first position from p on whose character is not in set
RunEnd(s, p, set) ==
  IF p <= Len(s) /\ s[p] \in set THEN RunEnd(s, p + 1, set) ELSE p

RECURSIVE FindChar(_, _, _)
\* the first position from p on that holds c, 0 if there is none
FindChar(s, p, c) ==
  IF p > Len(s) THEN 0
  ELSE IF s[p] = c THEN p
  ELSE FindChar(s, p + 1, c)

RECURSIVE FindClose(_, _)
\* the first position from p on where a comment closes, 0 if there is none
FindClose(s, p) ==
  IF p + 1 > Len(s) THEN 0
  ELSE IF s[p] = "*" /\ s[p + 1] = "/" THEN p
  ELSE FindClose(s, p + 1)

RECURSIVE Skip(_, _)
\* The position of the next token from p on.  '//' opens a comment that
\* runs to the end of the text (the keypad has no line terminator), '/*'
\* one that runs to the next '*/' and is a lexical error when unclosed.
Skip(s, p) ==
  IF p = 0 THEN 0
  ELSE IF At(s, p) = "/" /\ At(s, p + 1) = "/" THEN Len(s) + 1
  ELSE IF At(s, p) = "/" /\ At(s, p + 1) = "*"
       THEN LET q == FindClose(s, p + 2)
            IN IF q = 0 THEN 0 ELSE Skip(s, q + 2)
  ELSE p

\* the result of parsing and evaluating a phrase: e is "ok" or "syntax",
\* v the value, p the position after the phrase, un tells that the phrase
\* is a unary + or - expression and id that it is a bare identifier
Res(e, v, p, un, id) == [e |-> e, v |-> v, p |-> p, un |-> un, id |-> id]

Ok(v, p) == Res("ok", v, p, FALSE, FALSE)

Syn == Res("syntax", Undefined, 0, FALSE, FALSE)

\* a phrase the model does not evaluate (a property access)
Unsup == Res("unsup", Undefined, 0, FALSE, FALSE)

RECURSIVE DigitsValue(_, _, _)
\* the number written by the digits s[a..b]
DigitsValue(s, a, b) ==
  IF b < a THEN 0 ELSE DigitsValue(s, a, b - 1) * 10 + DigitVal(s[b])

RECURSIVE Pow10(_)
Pow10(k) == IF k = 0 THEN 1 ELSE 10 * Pow10(k - 1)

\* A DecimalLiteral at p.  The code is module code, hence strict: an
\* integer part of several digits that starts with 0 is a syntax error,
\* and so is an identifier character right after the literal.
ScanNumber(s, p) ==
  LET ie == IF s[p] = "." THEN p ELSE RunEnd(s, p, Digits)
      hasDot == At(s, ie) = "."
      fe == IF hasDot THEN RunEnd(s, ie + 1, Digits) ELSE ie
      intLen == ie - p
      fracLen == IF hasDot THEN fe - ie - 1 ELSE 0
      int == DigitsValue(s, p, ie - 1)
      frac == DigitsValue(s, ie + 1, fe - 1)
      g == Gcd(frac, Pow10(fracLen))
      fd == Pow10(fracLen) \div g
      v == IF intLen > 6 \/ fracLen > 9 THEN OOD
           ELSE IF fd > MaxDen THEN OOD
           ELSE MkNum(int * fd + frac \div g, fd)
  IN IF intLen = 0 /\ fracLen = 0 THEN Syn
     ELSE IF intLen > 1 /\ s[p] = "0" THEN Syn
     ELSE IF At(s, fe) \in IdStartChars THEN Syn
     ELSE Ok(v, fe)

\* An IdentifierReference at p: the global Infinity or NaN; no other name
\* the calculator can build is bound in the scope of the eval
ScanIdentifier(s, p) ==
  LET e == RunEnd(s, p, IdPartChars)
      name == SubSeq(s, p, e - 1)
      v == IF name = Infinity THEN Inf(FALSE)
           ELSE IF name = NaN THEN NaNV
           ELSE Throw("ReferenceError")
  IN Res("ok", v, e, FALSE, TRUE)

\* the pattern of a regular expression: a quantifier needs an atom before it
PatternOK(body) ==
  \A i \in 1..Len(body) :
     body[i] \in {"+", "*"} => (i > 1 /\ body[i - 1] \notin {"+", "*"})

FlagsOK(flags) ==
  /\ \A i \in 1..Len(flags) : flags[i] \in ValidFlags
  /\ \A i, j \in 1..Len(flags) : flags[i] = flags[j] => i = j

\* A RegularExpressionLiteral at p (s[p] is '/' and opens no comment)
ScanRegex(s, p) ==
  LET c == FindChar(s, p + 1, "/")
      fe == RunEnd(s, c + 1, IdPartChars)
  IN IF c = 0 THEN Syn
     ELSE IF ~PatternOK(SubSeq(s, p + 1, c - 1)) THEN Syn
     ELSE IF ~FlagsOK(SubSeq(s, c + 1, fe - 1)) THEN Syn
     ELSE Ok(RegexV(SubSeq(s, p, fe - 1)), fe)

ParsePrimary(s, p) ==
  IF s[p] \in Digits \cup {"."} THEN ScanNumber(s, p)
  ELSE IF s[p] \in IdStartChars THEN ScanIdentifier(s, p)
  ELSE IF s[p] = "/" THEN ScanRegex(s, p)
  ELSE Syn

(***************************************************************************)
(* The expression grammar, evaluated while it is parsed.  A syntax error   *)
(* anywhere in the text wins over an exception raised at run time, as the  *)
(* text is parsed whole before it is run.                                  *)
(***************************************************************************)
\* ++ or -- applied to an identifier: reading an unbound name throws its
\* ReferenceError, writing the read-only Infinity or NaN a TypeError
Assign(v) == IF v.t = "throw" THEN v ELSE Throw("TypeError")

IsUpdateOp(s, p) == At(s, p) \in {"+", "-"} /\ At(s, p + 1) = At(s, p)

RECURSIVE ParseUnary(_, _), ParseUpdate(_, _), ParsePow(_, _)
\* prefix ++ or -- applied to the parsed operand r
PrefixUpdate(r) ==
  IF r.e # "ok" THEN r
  ELSE IF r.id THEN Ok(Assign(r.v), r.p)
  ELSE Syn

\* the parsed primary r, with the ++ or -- that may follow it
PostfixUpdate(s, r) ==
  LET q == Skip(s, r.p)
  IN IF r.e # "ok" THEN r
     ELSE IF IsUpdateOp(s, q)
          THEN (IF r.id THEN Ok(Assign(r.v), q + 2) ELSE Syn)
     ELSE r

\* UpdateExpression at a token position p
ParseUpdate(s, p) ==
  IF IsUpdateOp(s, p)
  THEN PrefixUpdate(ParseUnary(s, p + 2))
  ELSE PostfixUpdate(s, ParsePrimary(s, p))

\* unary op applied to the parsed operand r
SignedUnary(op, r) ==
  IF r.e # "ok" THEN r
  ELSE Res("ok", UnaryOp(op, r.v), r.p, TRUE, FALSE)

\* UnaryExpression from p0 on
ParseUnary(s, p0) ==
  LET p == Skip(s, p0)
  IN IF p = 0 \/ p > Len(s) THEN Syn
     ELSE IF s[p] \in {"+", "-"} /\ ~IsUpdateOp(s, p)
          THEN SignedUnary(s[p], ParseUnary(s, p + 1))
     ELSE ParseUpdate(s, p)

\* the binary operator op applied to the parsed operands l and r; a phrase
\* that failed is passed on
ApplyBinary(op, l, r) ==
  IF l.e # "ok" THEN l
  ELSE IF r.e # "ok" THEN r
  ELSE Ok(BinOp(op, l.v, r.v), r.p)

\* ExponentiationExpression continued after its base l: right associative,
\* and its base is no unary expression
PowRest(s, l) ==
  LET q == Skip(s, l.p)
  IN IF l.e # "ok" THEN l
     ELSE IF At(s, q) = "*" /\ At(s, q + 1) = "*"
          THEN (IF l.un THEN Syn ELSE ApplyBinary("**", l, ParsePow(s, q + 2)))
     ELSE l

ParsePow(s, p0) == PowRest(s, ParseUnary(s, p0))

RECURSIVE MulLoop(_, _)
\* MultiplicativeExpression continued after its left operand l
MulLoop(s, l) ==
  LET q == Skip(s, l.p)
  IN IF l.e # "ok" THEN l
     ELSE IF q = 0 THEN Syn
     ELSE IF At(s, q) \in {"*", "/"}
          THEN MulLoop(s, ApplyBinary(s[q], l, ParsePow(s, q + 1)))
     ELSE l

ParseMul(s, p0) == MulLoop(s, ParsePow(s, p0))

RECURSIVE AddLoop_RightAssoc(_, _)
\* AddLoop grouping from the right: l op (r op ...)
AddLoop_RightAssoc(s, l) ==
  LET q == Skip(s, l.p)
  IN IF l.e # "ok" THEN l
     ELSE IF q = 0 \/ IsUpdateOp(s, q) THEN Syn
     ELSE IF At(s, q) \in {"+", "-"}
          THEN ApplyBinary(s[q], l, AddLoop_RightAssoc(s, ParseMul(s, q + 1)))
     ELSE l

RECURSIVE AddLoop(_, _)
\* AdditiveExpression continued after its left operand l
AddLoop(s, l) ==
  LET q == Skip(s, l.p)
  IN IF l.e # "ok" THEN l
     ELSE IF q = 0 \/ IsUpdateOp(s, q) THEN Syn
     ELSE IF At(s, q) \in {"+", "-"}
          THEN AddLoop(s, ApplyBinary(s[q], l, ParseMul(s, q + 1)))
     ELSE l

ParseAdd(s, p0) == AddLoop(s, ParseMul(s, p0))

\* the end of the Script after its expression statement r
ScriptEnd(s, r) ==
  LET q == Skip(s, r.p)
  IN IF r.e # "ok" THEN r
     ELSE IF q = 0 THEN Syn
     ELSE IF q > Len(s) THEN r
     ELSE IF At(s, q) = "." /\ At(s, q + 1) \in IdStartChars THEN Unsup
     ELSE Syn

\* The text as a Script: nothing but comments, or one expression statement
\* that takes the whole text
ParseScript(s) ==
  LET p == Skip(s, 1)
  IN IF p = 0 THEN Syn
     ELSE IF p > Len(s) THEN Ok(Undefined, p)
     ELSE ScriptEnd(s, ParseAdd(s, p))

\* the completion of the parsed Script r
Completion(r) ==
  IF r.e = "syntax" THEN Throw("SyntaxError")
  ELSE IF r.e = "unsup" THEN OOD
  ELSE r.v

\* eval(s): the completion value of the text or the exception it throws
Eval(s) == Completion(ParseScript(s))

\* String(eval(input)) in place of eval(input).toString()
EvalToString_StringCoercion(s) ==
  LET v == Eval(s)
  IN IF v.t \in {"throw", "ood"} THEN v
     ELSE IF v.t = "undefined" THEN StrV(<<"u", "n", "d", "e", "f", "i", "n", "e", "d">>)
     ELSE StrV(ToStr(v))

\* v.toString(): undefined has no toString
ValueToString(v) ==
  IF v.t \in {"throw", "ood"} THEN v
  ELSE IF v.t = "undefined" THEN Throw("TypeError")
  ELSE StrV(ToStr(v))

\* eval(input).toString()
EvalToString(s) == ValueToString(Eval(s))

(***************************************************************************)
(* JSON.stringify and JSON.parse on a list of Calculation records.  The    *)
(* text is a sequence of characters, except that the two property names    *)
(* with their quotes and colon are one element each.                       *)
(***************************************************************************)
Calculation(expression, result) ==
  [expression |-> expression, result |-> result]

ExpressionKey == "\"expression\":"

ResultKey == "\"result\":"

Quote == "\""

Backslash == "\\"

RECURSIVE QuoteChars(_)
\* the characters of a string as JSON writes them between quotes
QuoteChars(s) ==
  IF s = <<>> THEN <<>>
  ELSE (IF Head(s) \in {Quote, Backslash} THEN <<Backslash, Head(s)>>
        ELSE <<Head(s)>>) \o QuoteChars(Tail(s))

QuoteJSON(s) == <<Quote>> \o QuoteChars(s) \o <<Quote>>

RecordJSON(c) ==
  <<"{", ExpressionKey>> \o QuoteJSON(c.expression)
  \o <<",", ResultKey>> \o QuoteJSON(c.result) \o <<"}">>

RECURSIVE RecordsJSON(_)
RecordsJSON(h) ==
  IF h = <<>> THEN <<>>
  ELSE IF Len(h) = 1 THEN RecordJSON(h[1])
  ELSE RecordJSON(h[1]) \o <<",">> \o RecordsJSON(Tail(h))

\* JSON.stringify(history)
JSONStringify(h) == <<"[">> \o RecordsJSON(h) \o <<"]">>

\* the result of reading a phrase of JSON text: the value and the position
\* after it, ok FALSE for a SyntaxError
JRes(ok, v, p) == [ok |-> ok, v |-> v, p |-> p]

JFail == JRes(FALSE, <<>>, 0)

RECURSIVE ReadChars(_, _, _)
\* the characters of a JSON string from p on up to its closing quote
ReadChars(t, p, acc) ==
  IF p > Len(t) THEN JFail
  ELSE IF t[p] = Quote THEN JRes(TRUE, acc, p + 1)
  ELSE IF t[p] = Backslash
       THEN (IF At(t, p + 1) \in {Quote, Backslash}
             THEN ReadChars(t, p + 2, Append(acc, t[p + 1]))
             ELSE JFail)
  ELSE ReadChars(t, p + 1, Append(acc, t[p]))

ReadString(t, p) ==
  IF At(t, p) = Quote THEN ReadChars(t, p + 1, <<>>) ELSE JFail

ReadRecord(t, p) ==
  LET e == ReadString(t, p + 2)
      r == ReadString(t, e.p + 2)
  IN IF At(t, p) # "{" \/ At(t, p + 1) # ExpressionKey THEN JFail
     ELSE IF ~e.ok \/ At(t, e.p) # "," \/ At(t, e.p + 1) # ResultKey THEN JFail
     ELSE IF ~r.ok \/ At(t, r.p) # "}" THEN JFail
     ELSE JRes(TRUE, Calculation(e.v, r.v), r.p + 1)

RECURSIVE ReadRecords(_, _, _)
\* the records of an array from p on, after the records acc
ReadRecords(t, p, acc) ==
  LET c == ReadRecord(t, p)
  IN IF ~c.ok THEN JFail
     ELSE IF At(t, c.p) = "]" THEN JRes(TRUE, Append(acc, c.v), c.p + 1)
     ELSE IF At(t, c.p) = "," THEN ReadRecords(t, c.p + 1, Append(acc, c.v))
     ELSE JFail

\* JSON.parse(text) for the text of a list of records
JSONParse(t) ==
  LET r == IF At(t, 2) = "]" THEN JRes(TRUE, <<>>, 3)
           ELSE ReadRecords(t, 2, <<>>)
  IN IF At(t, 1) # "[" THEN JFail
     ELSE IF ~r.ok \/ r.p # Len(t) + 1 THEN JFail
     ELSE r

(***************************************************************************)
(* The state of the application.                                           *)
(***************************************************************************)
VARIABLES
  input,       \* Calculator: the input string
  history,     \* CalculatorProvider: the list of Calculation records
  stored,      \* localStorage: the item 'calculatorHistory'
  pending,     \* the setHistory calls of the mount effects not yet rendered
  pc,          \* the step of the mount of the provider, "ready" once settled
  strictMode,  \* the tree is rendered under React.StrictMode
  error,       \* the kind of exception handleCalculate caught last, or ""
  alert,       \* the message of the alert the last handler raised, or ""
  keys,        \* keypad presses so far
  mounts,      \* page loads so far
  atMount      \* the item as it was stored when the page was loaded

\* the state of the calculator
calcVars ==
  <<input, history, stored, pending, pc, strictMode, error, alert, keys,
    mounts, atMount>>

VARIABLES
  provided,    \* useCalculator's caller is rendered under a CalculatorProvider
  returned     \* what the last call of useCalculator returned or threw

\* the state of a component that calls useCalculator
hookVars == <<provided, returned>>

VARIABLES
  count,       \* my-react-app Counter: the count state
  step,        \* my-react-app Counter: the step state
  countQueue,  \* the setCount calls not yet rendered
  stepQueue,   \* the setStep calls not yet rendered
  incs,        \* increments dispatched since reset or a change of step
  decs,        \* decrements dispatched since reset or a change of step
  base,        \* the count at the last reset or change of step
  clicks       \* events the Counter has handled

counterVars == <<count, step, countQueue, stepQueue, incs, decs, base, clicks>>

VARIABLES
  demoCount,   \* week2_demo Counter: the count state
  demoQueue,   \* the myButtonCounter calls not yet rendered
  demoClicks   \* clicks of Increment so far

demoVars == <<demoCount, demoQueue, demoClicks>>

VARIABLES
  name,          \* UserProfile: the name state
  age,           \* UserProfile: the age state
  isLoggedIn,    \* UserProfile: the isLoggedIn state
  profileQueue,  \* the state updates of UserProfile not yet rendered
  effectDue,     \* the effect is scheduled to run after the last render
  mountDone,     \* the effect has run for the mount
  toggles        \* clicks of the Log In / Log Out button so far

profileVars ==
  <<name, age, isLoggedIn, profileQueue, effectDue, mountDone, toggles>>

VARIABLES
  props,       \* Greeting: the props it is rendered with
  element      \* Greeting: what it rendered

greetVars == <<props, element>>

VARIABLES
  dashMounted, \* Dashboard is mounted
  time,        \* Dashboard: the time state, as the ticks it has shown
  data,        \* Dashboard: the data state
  timers,      \* the interval timers that are active
  timer,       \* the timer the cleanup of Effect 1 holds
  created,     \* interval timers created so far
  fetching,    \* the mounts whose fetch of Effect 2 is in flight
  dashMounts   \* mounts of Dashboard so far

dashVars ==
  <<dashMounted, time, data, timers, timer, created, fetching, dashMounts>>

VARIABLES
  storedValue, \* useLocalStorage: the storedValue state
  lsItem,      \* localStorage: the item under the key of the hook
  lsQueue,     \* the setStoredValue calls not yet rendered
  lsExpected,  \* the value React's setState gives for the same calls
  lsCalls      \* calls of setValue so far

lsVars == <<storedValue, lsItem, lsQueue, lsExpected, lsCalls>>

VARIABLES
  notifications, \* NotificationProvider: the notifications state
  timeouts,      \* the timers of setTimeout that have not fired
  now,           \* Date.now()
  added          \* calls of addNotification so far

notifVars == <<notifications, timeouts, now, added>>

VARIABLES
  user,        \* AuthProvider: the user state
  userItem,    \* localStorage: the item 'user'
  authQueue,   \* the setUser calls not yet rendered
  authLoaded,  \* the mount effect has run
  authCalls    \* calls of login and logout so far

authVars == <<user, userItem, authQueue, authLoaded, authCalls>>

VARIABLES
  formData,     \* UserForm: the formData state
  errors,       \* UserForm: the errors state
  isSubmitting, \* UserForm: the isSubmitting state
  inFlight,     \* submissions that await the API call
  submitted,    \* the form data the last finished submission sent
  formEvents    \* events UserForm has handled

formVars == <<formData, errors, isSubmitting, inFlight, submitted, formEvents>>

VARIABLES
  url,         \* DataDisplay: the newUrl prop given to useFetchData
  fetched,     \* useFetchData: the data state
  requests,    \* the fetches that have not been answered
  urlChanges   \* changes of the url so far

fetchVars == <<url, fetched, requests, urlChanges>>

\* the state of the components modelled in the later sections
laterVars == <<lsVars, notifVars, authVars, formVars, fetchVars>>

\* the state of the components other than the calculator
others ==
  <<hookVars, counterVars, demoVars, profileVars, greetVars, dashVars,
    laterVars>>

\* the state of the calculator and the components of the earlier sections
earlierVars ==
  <<calcVars, hookVars, counterVars, demoVars, profileVars, greetVars,
    dashVars>>

vars == <<calcVars, others>>

\* the state beside each component
notHook ==
  <<counterVars, demoVars, profileVars, greetVars, dashVars,
    laterVars>>

notCounter ==
  <<calcVars, hookVars, demoVars, profileVars, greetVars, dashVars,
    laterVars>>

notDemo ==
  <<calcVars, hookVars, counterVars, profileVars, greetVars, dashVars,
    laterVars>>

notProfile ==
  <<calcVars, hookVars, counterVars, demoVars, greetVars, dashVars,
    laterVars>>

notGreeting ==
  <<calcVars, hookVars, counterVars, demoVars, profileVars, dashVars,
    laterVars>>

notDashboard ==
  <<calcVars, hookVars, counterVars, demoVars, profileVars, greetVars,
    laterVars>>

notLocalStorage == <<earlierVars, notifVars, authVars, formVars, fetchVars>>

notNotifications == <<earlierVars, lsVars, authVars, formVars, fetchVars>>

notAuth == <<earlierVars, lsVars, notifVars, formVars, fetchVars>>

notForm == <<earlierVars, lsVars, notifVars, authVars, fetchVars>>

notFetch == <<earlierVars, lsVars, notifVars, authVars, formVars>>

\* useCalculator has not been called
NotCalled == [kind |-> "none"]

HookIdle ==
  /\ provided = FALSE
  /\ returned = NotCalled

\* useState(0) and useState(1)
CounterIdle ==
  /\ count = 0
  /\ step = 1
  /\ countQueue = <<>>
  /\ stepQueue = <<>>
  /\ incs = 0
  /\ decs = 0
  /\ base = 0
  /\ clicks = 0

\* useState(100)
DemoIdle ==
  /\ demoCount = 100
  /\ demoQueue = <<>>
  /\ demoClicks = 0

JohnDoe == <<"J", "o", "h", "n", " ", "D", "o", "e">>

\* useState('John Doe'), useState(30), useState(false); the effect is
\* scheduled by the first render
ProfileIdle ==
  /\ name = JohnDoe
  /\ age = 30
  /\ isLoggedIn = FALSE
  /\ profileQueue = <<>>
  /\ effectDue = TRUE
  /\ mountDone = FALSE
  /\ toggles = 0

\* nothing rendered
NoElement == [tag |-> "none"]

\* an optional prop that is omitted, and one that is given
Omitted == [given |-> FALSE]

Given(v) == [given |-> TRUE, v |-> v]

\* GreetingProps
GreetingProps(n, a, v) == [name |-> n, age |-> a, isVip |-> v]

GreetingIdle ==
  /\ props = GreetingProps("Charlie", Omitted, Omitted)
  /\ element = NoElement

DashboardIdle ==
  /\ dashMounted = FALSE
  /\ time = 0
  /\ data = "null"
  /\ timers = {}
  /\ timer = 0
  /\ created = 0
  /\ fetching = {}
  /\ dashMounts = 0

\* localStorage.getItem: null when the item is absent
NoItem == [has |-> FALSE, text |-> <<>>]

\* no item under the key: the state is the initialValue 0
LocalStorageIdle ==
  /\ storedValue = 0
  /\ lsItem = NoItem
  /\ lsQueue = <<>>
  /\ lsExpected = 0
  /\ lsCalls = 0

\* useState([])
NotificationsIdle ==
  /\ notifications = <<>>
  /\ timeouts = {}
  /\ now = 0
  /\ added = 0

\* the user state null
NoUser == [isNull |-> TRUE]

\* useState(null), before the mount effect
AuthIdle ==
  /\ user = NoUser
  /\ userItem = NoItem
  /\ authQueue = <<>>
  /\ authLoaded = FALSE
  /\ authCalls = 0

\* the initial and the reset form data
EmptyForm == [firstName |-> <<>>, lastName |-> <<>>, email |-> <<>>, age |-> 0]

FormIdle ==
  /\ formData = EmptyForm
  /\ errors = {}
  /\ isSubmitting = FALSE
  /\ inFlight = 0
  /\ submitted = EmptyForm
  /\ formEvents = 0

\* useState(null), before the effect has fetched
FetchIdle ==
  /\ url = "url1"
  /\ fetched = "null"
  /\ requests = <<>>
  /\ urlChanges = 0

\* the components of the later sections, before anything happened
LaterIdle ==
  /\ LocalStorageIdle
  /\ NotificationsIdle
  /\ AuthIdle
  /\ FormIdle
  /\ FetchIdle

\* the calculator aside, the components of the earlier sections
EarlierIdle ==
  /\ HookIdle
  /\ CounterIdle
  /\ DemoIdle
  /\ ProfileIdle
  /\ GreetingIdle
  /\ DashboardIdle

\* the components other than the calculator, before anything happened
OthersIdle == EarlierIdle /\ LaterIdle

\* the keypad buttons that append to the input, '=' aside
Buttons ==
  {"7", "8", "9", "/", "4", "5", "6", "*", "1", "2", "3", "-", "0", ".", "+"}

\* the buttons pressed in the behaviours of Spec
Keys == {"0", "1", "2", "+", "-", "*", "/", "."}

\* the characters of the input strings of SpecEval
EvalKeys == {"0", "2", "3", "4", "+", "-", "*", "/"}

\* The entry point renders App inside React.StrictMode or not; in a
\* development build StrictMode runs the mount effects a second time.
StrictModes == BOOLEAN

Item(text) == [has |-> TRUE, text |-> text]

\* an item is truthy when it is a non-empty string
Truthy(item) == item.has /\ item.text # <<>>

\* the body of the save effect: setItem of the serialised history
SaveItem(h) == Item(JSONStringify(h))

\* an updater that adds the record at the end of the list
AddCalculation_Append(prevHistory, calculation) ==
  Append(prevHistory, calculation)

\* an updater that keeps only the new record
AddCalculation_Replace(prevHistory, calculation) == <<calculation>>

\* addCalculation's updater
AddCalculation(prevHistory, calculation) == <<calculation>> \o prevHistory

Init ==
  /\ input = <<>>
  /\ history = <<>>
  /\ stored = NoItem
  /\ pending = <<>>
  /\ pc = "load"
  /\ strictMode \in StrictModes
  /\ error = ""
  /\ alert = ""
  /\ keys = 0
  /\ mounts = 1
  /\ atMount = stored
  /\ OthersIdle

(***************************************************************************)
(* The mount of CalculatorProvider: the load effect, the save effect,      *)
(* under StrictMode both once more, then the render of the queued state    *)
(* updates, after which the save effect runs again if history changed.     *)
(***************************************************************************)
LoadEffect ==
  /\ pc \in {"load", "load2"}
  /\ LET parsed == JSONParse(stored.text)
     IN IF ~Truthy(stored)
        THEN /\ pending' = pending
             /\ pc' = IF pc = "load" THEN "save" ELSE "save2"
        ELSE IF parsed.ok
        THEN /\ pending' = Append(pending, parsed.v)
             /\ pc' = IF pc = "load" THEN "save" ELSE "save2"
        ELSE /\ pending' = pending
             /\ pc' = "crashed"
  /\ UNCHANGED <<input, history, stored, strictMode, error, alert, keys,
                 mounts, atMount>>
  /\ UNCHANGED others

SaveEffect ==
  /\ pc \in {"save", "save2", "resave"}
  /\ stored' = SaveItem(history)
  /\ pc' = IF pc = "save" THEN (IF strictMode THEN "load2" ELSE "render")
           ELSE IF pc = "save2" THEN "render"
           ELSE "ready"
  /\ UNCHANGED <<input, history, pending, strictMode, error, alert, keys,
                 mounts, atMount>>
  /\ UNCHANGED others

Render ==
  /\ pc = "render"
  /\ IF pending = <<>>
     THEN /\ pc' = "ready"
          /\ UNCHANGED history
     ELSE /\ history' = pending[Len(pending)]
          /\ pc' = "resave"
  /\ pending' = <<>>
  /\ UNCHANGED <<input, stored, strictMode, error, alert, keys, mounts,
                 atMount>>
  /\ UNCHANGED others

\* the page is loaded again: the state of the components is new, the
\* storage is kept
Reload ==
  /\ pc = "ready"
  /\ mounts < MaxMounts
  /\ mounts' = mounts + 1
  /\ input' = <<>>
  /\ history' = <<>>
  /\ pending' = <<>>
  /\ pc' = "load"
  /\ error' = ""
  /\ alert' = ""
  /\ atMount' = stored
  /\ UNCHANGED <<stored, strictMode, keys>>
  /\ UNCHANGED others

(***************************************************************************)
(* The handlers of Calculator.                                             *)
(***************************************************************************)
handleButtonClick(value) ==
  /\ pc = "ready"
  /\ keys < MaxKeys
  /\ keys' = keys + 1
  /\ input' = input \o <<value>>
  /\ error' = ""
  /\ alert' = ""
  /\ UNCHANGED <<history, stored, pending, pc, strictMode, mounts, atMount>>
  /\ UNCHANGED others

handleClear ==
  /\ pc = "ready"
  /\ input' = <<>>
  /\ error' = ""
  /\ alert' = ""
  /\ UNCHANGED <<history, stored, pending, pc, strictMode, keys, mounts,
                 atMount>>
  /\ UNCHANGED others

\* handleCalculate with a catch block that also clears the input
handleCalculate_ClearsOnError ==
  \E result \in {EvalToString(input)} :
     /\ pc = "ready"
     /\ result.t # "ood"
     /\ IF result.t = "str"
        THEN /\ Len(history) < MaxHistory
             /\ history' = AddCalculation(history, Calculation(input, result.s))
             /\ input' = result.s
             /\ stored' = SaveItem(history')
             /\ error' = ""
             /\ alert' = ""
        ELSE /\ error' = result.s[1]
             /\ alert' = "Invalid Expression"
             /\ input' = <<>>
             /\ UNCHANGED <<history, stored>>
     /\ UNCHANGED <<pending, pc, strictMode, keys, mounts, atMount>>
     /\ UNCHANGED others

\* '=': on success the record is added, the input becomes the result and
\* the save effect of the provider runs with the new history; an exception
\* is caught and answered with the alert
handleCalculate ==
  \E result \in {EvalToString(input)} :
     /\ pc = "ready"
     /\ result.t # "ood"
     /\ IF result.t = "str"
        THEN /\ Len(history) < MaxHistory
             /\ history' = AddCalculation(history, Calculation(input, result.s))
             /\ input' = result.s
             /\ stored' = SaveItem(history')
             /\ error' = ""
             /\ alert' = ""
        ELSE /\ error' = result.s[1]
             /\ alert' = "Invalid Expression"
             /\ UNCHANGED <<input, history, stored>>
     /\ UNCHANGED <<pending, pc, strictMode, keys, mounts, atMount>>
     /\ UNCHANGED others

Next ==
  \/ LoadEffect
  \/ SaveEffect
  \/ Render
  \/ Reload
  \/ \E value \in Keys : handleButtonClick(value)
  \/ handleClear
  \/ handleCalculate

Spec == Init /\ [][Next]_vars

(***************************************************************************)
(* The evaluation on its own: '=' pressed on every input string of up to   *)
(* MaxLen characters, in a calculator whose provider has settled on an     *)
(* empty history.                                                          *)
(***************************************************************************)
InputStrings == UNION {[1..k -> EvalKeys] : k \in 0..MaxLen}

InitEval ==
  /\ input \in InputStrings
  /\ history = <<>>
  /\ stored = SaveItem(<<>>)
  /\ pending = <<>>
  /\ pc = "ready"
  /\ strictMode = FALSE
  /\ error = ""
  /\ alert = ""
  /\ keys = 0
  /\ mounts = 1
  /\ atMount = stored
  /\ OthersIdle

NextEval == handleCalculate

SpecEval == InitEval /\ [][NextEval]_vars

\* the calculator with its provider settled on the history h and nothing
\* keyed in
CalcSettled(h) ==
  /\ input = <<>>
  /\ history = h
  /\ stored = SaveItem(h)
  /\ pending = <<>>
  /\ pc = "ready"
  /\ strictMode = FALSE
  /\ error = ""
  /\ alert = ""
  /\ keys = 0
  /\ mounts = 1
  /\ atMount = stored

(***************************************************************************)
(* useCalculator, called by a component that is rendered under a           *)
(* CalculatorProvider or under none.                                       *)
(***************************************************************************)
\* createContext(undefined): the value read where no provider is above
NoContext == [defined |-> FALSE]

\* the value of the provider: value={{ history, addCalculation }}
ContextValue(h) ==
  [defined |-> TRUE, history |-> h, addCalculation |-> "addCalculation"]

\* useContext(CalculatorContext)
UseContext(hasProvider, h) ==
  IF hasProvider THEN ContextValue(h) ELSE NoContext

Thrown(message) == [kind |-> "threw", message |-> message]

Returned(value) == [kind |-> "returned", value |-> value]

\* useCalculator without the check of the context
useCalculator_Unchecked(context) == Returned(context)

useCalculator(context) ==
  IF ~context.defined
  THEN Thrown("useCalculator must be used within a CalculatorProvider")
  ELSE Returned(context)

\* the records of the histories of SpecHook
HookCalculations ==
  {Calculation(<<"2", "+", "3">>, <<"5">>),
   Calculation(<<"4", "*", "2">>, <<"8">>),
   Calculation(<<"2", "/", "0">>, Infinity),
   Calculation(<<"3">>, <<"3">>)}

HookHistories == UNION {[1..k -> HookCalculations] : k \in 0..MaxHistory}

InitHook ==
  /\ \E h \in HookHistories : CalcSettled(h)
  /\ provided \in BOOLEAN
  /\ returned = NotCalled
  /\ CounterIdle /\ DemoIdle /\ ProfileIdle /\ GreetingIdle /\ DashboardIdle
  /\ LaterIdle

\* a render of the component: it calls useCalculator
CallUseCalculator ==
  /\ returned' = useCalculator(UseContext(provided, history))
  /\ UNCHANGED <<provided, calcVars, notHook>>

\* the component is rendered again after the history has changed
HistoryChanges ==
  /\ provided
  /\ \E h \in HookHistories : history' = h /\ stored' = SaveItem(h)
  /\ returned' = NotCalled
  /\ UNCHANGED <<provided, input, pending, pc, strictMode, error, alert,
                 keys, mounts, atMount, notHook>>

NextHook == CallUseCalculator \/ HistoryChanges

SpecHook == InitHook /\ [][NextHook]_vars

(***************************************************************************)
(* The Counter of my-react-app.  A handler queues its state update; the    *)
(* next render applies the queued updates in order, and the handlers of    *)
(* that render read the step it committed.                                 *)
(***************************************************************************)
\* events the Counter handles in a behaviour
MaxClicks == 4

\* setCount(prevCount => prevCount + delta)
Updater(delta) == [fn |-> TRUE, n |-> delta]

\* setCount(value)
SetTo(value) == [fn |-> FALSE, n |-> value]

RECURSIVE ApplyUpdates(_, _)
\* the state after the queued updates q are applied to the state c in order
ApplyUpdates(c, q) ==
  IF q = <<>> THEN c
  ELSE ApplyUpdates(IF Head(q).fn THEN c + Head(q).n ELSE Head(q).n, Tail(q))

\* the value of the last queued setStep, the state s if there is none
LastSet(s, q) == IF q = <<>> THEN s ELSE q[Len(q)]

\* The values of the number input the handler can receive: the text of a
\* valid floating-point number, or '' for anything else that was typed
StepTexts ==
  {<<>>, <<"0">>, <<"3">>, <<"-", "2">>, <<"2", ".", "5">>, <<"1", "e", "2">>}

NotANumber == [nan |-> TRUE, n |-> 0]

\* parseInt(text): an optional sign and the longest run of decimal digits
\* after it, NaN when there is no digit
ParseInt(text) ==
  LET signed == At(text, 1) \in {"+", "-"}
      p == IF signed THEN 2 ELSE 1
      e == RunEnd(text, p, Digits)
      n == DigitsValue(text, p, e - 1)
  IN IF e = p THEN NotANumber
     ELSE [nan |-> FALSE, n |-> IF At(text, 1) = "-" THEN -n ELSE n]

\* v || 1 for a number v: NaN and 0 are falsy
OrOne(v) == IF v.nan \/ v.n = 0 THEN 1 ELSE v.n

InitCounter ==
  /\ CalcSettled(<<>>)
  /\ HookIdle /\ CounterIdle /\ DemoIdle /\ ProfileIdle /\ GreetingIdle
  /\ DashboardIdle
  /\ LaterIdle

\* increment with setCount(count + step) in place of the functional updater
increment_Direct ==
  /\ clicks < MaxClicks
  /\ clicks' = clicks + 1
  /\ countQueue' = Append(countQueue, SetTo(count + step))
  /\ incs' = incs + 1
  /\ UNCHANGED <<count, step, stepQueue, decs, base, notCounter>>

increment ==
  /\ clicks < MaxClicks
  /\ clicks' = clicks + 1
  /\ countQueue' = Append(countQueue, Updater(step))
  /\ incs' = incs + 1
  /\ UNCHANGED <<count, step, stepQueue, decs, base, notCounter>>

\* decrement with prevCount + step
decrement_Adds ==
  /\ clicks < MaxClicks
  /\ clicks' = clicks + 1
  /\ countQueue' = Append(countQueue, Updater(step))
  /\ decs' = decs + 1
  /\ UNCHANGED <<count, step, stepQueue, incs, base, notCounter>>

decrement ==
  /\ clicks < MaxClicks
  /\ clicks' = clicks + 1
  /\ countQueue' = Append(countQueue, Updater(-step))
  /\ decs' = decs + 1
  /\ UNCHANGED <<count, step, stepQueue, incs, base, notCounter>>

reset ==
  /\ clicks < MaxClicks
  /\ clicks' = clicks + 1
  /\ countQueue' = Append(countQueue, SetTo(0))
  /\ incs' = 0
  /\ decs' = 0
  /\ base' = 0
  /\ UNCHANGED <<count, step, stepQueue, notCounter>>

\* onChange of the step input
onChange(text) ==
  /\ clicks < MaxClicks
  /\ clicks' = clicks + 1
  /\ stepQueue' = Append(stepQueue, OrOne(ParseInt(text)))
  /\ UNCHANGED <<count, step, countQueue, incs, decs, base, notCounter>>

\* the render after one or more handlers have run
CounterRender ==
  /\ countQueue # <<>> \/ stepQueue # <<>>
  /\ count' = ApplyUpdates(count, countQueue)
  /\ step' = LastSet(step, stepQueue)
  /\ countQueue' = <<>>
  /\ stepQueue' = <<>>
  /\ IF step' # step
     THEN incs' = 0 /\ decs' = 0 /\ base' = count'
     ELSE UNCHANGED <<incs, decs, base>>
  /\ UNCHANGED <<clicks, notCounter>>

NextCounter ==
  \/ increment
  \/ decrement
  \/ reset
  \/ \E text \in StepTexts : onChange(text)
  \/ CounterRender

SpecCounter == InitCounter /\ [][NextCounter]_vars

(***************************************************************************)
(* The Counter of week2_demo: the click handler of a render sets the       *)
(* state to the count of that render plus 15.                              *)
(***************************************************************************)
\* clicks of Increment in a behaviour
MaxDemoClicks == 8

InitDemo ==
  /\ CalcSettled(<<>>)
  /\ HookIdle /\ CounterIdle /\ DemoIdle /\ ProfileIdle /\ GreetingIdle
  /\ DashboardIdle
  /\ LaterIdle

\* onClick={() => myButtonCounter(count + 15)}
onClickIncrement ==
  /\ demoClicks < MaxDemoClicks
  /\ demoClicks' = demoClicks + 1
  /\ demoQueue' = Append(demoQueue, SetTo(demoCount + 15))
  /\ UNCHANGED <<demoCount, notDemo>>

\* the render after one or more clicks
DemoRender ==
  /\ demoQueue # <<>>
  /\ demoCount' = ApplyUpdates(demoCount, demoQueue)
  /\ demoQueue' = <<>>
  /\ UNCHANGED <<demoClicks, notDemo>>

NextDemo == onClickIncrement \/ DemoRender

SpecDemo == InitDemo /\ [][NextDemo]_vars

(***************************************************************************)
(* UserProfile: the effect with the dependency list [isLoggedIn] runs      *)
(* after the first render and after every render that changed isLoggedIn.  *)
(***************************************************************************)
\* clicks of the Log In / Log Out button in a behaviour
MaxToggles == 8

\* a queued call of one of the three state setters
SetState(var, value) == [var |-> var, value |-> value]

RECURSIVE LastFor(_, _, _)
\* the state var after the queued calls q, v before them
LastFor(q, var, v) ==
  IF q = <<>> THEN v
  ELSE LastFor(Tail(q), var, IF Head(q).var = var THEN Head(q).value ELSE v)

Hello == <<"H", "e", "l", "l", "o">>

\* String({name}): an object literal converts to '[object Object]'
ObjectToString ==
  <<"[", "o", "b", "j", "e", "c", "t", " ", "O", "b", "j", "e", "c", "t", "]">>

InitProfile ==
  /\ CalcSettled(<<>>)
  /\ HookIdle /\ CounterIdle /\ DemoIdle /\ ProfileIdle /\ GreetingIdle
  /\ DashboardIdle
  /\ LaterIdle

\* the body of useEffect(..., [isLoggedIn])
ProfileEffect ==
  /\ effectDue
  /\ profileQueue' = profileQueue \o <<SetState("name", Hello \o ObjectToString),
                                       SetState("age", age + 1)>>
  /\ effectDue' = FALSE
  /\ mountDone' = TRUE
  /\ UNCHANGED <<name, age, isLoggedIn, toggles, notProfile>>

\* onClick={() => setIsLoggedIn(!isLoggedIn)}
onClickLogIn ==
  /\ ~effectDue
  /\ toggles < MaxToggles
  /\ toggles' = toggles + 1
  /\ profileQueue' = Append(profileQueue, SetState("isLoggedIn", ~isLoggedIn))
  /\ UNCHANGED <<name, age, isLoggedIn, effectDue, mountDone, notProfile>>

\* the render of the queued updates; it schedules the effect when
\* isLoggedIn has changed
ProfileRender ==
  /\ ~effectDue
  /\ profileQueue # <<>>
  /\ name' = LastFor(profileQueue, "name", name)
  /\ age' = LastFor(profileQueue, "age", age)
  /\ isLoggedIn' = LastFor(profileQueue, "isLoggedIn", isLoggedIn)
  /\ profileQueue' = <<>>
  /\ effectDue' = (isLoggedIn' # isLoggedIn)
  /\ UNCHANGED <<mountDone, toggles, notProfile>>

NextProfile == ProfileEffect \/ onClickLogIn \/ ProfileRender

SpecProfile == InitProfile /\ [][NextProfile]_vars

(***************************************************************************)
(* Greeting of my-react-app: the element it renders for its props.         *)
(***************************************************************************)
\* the names and ages PropApp passes, and the ages next to 0
Names == {"Alice", "Bob", "Charlie"}

Ages == {0, 1, 18, 25, 30}

PropsSet ==
  {GreetingProps(n, a, v) :
     n \in Names,
     a \in {Omitted} \cup {Given(x) : x \in Ages},
     v \in {Omitted} \cup {Given(x) : x \in BOOLEAN}}

\* a destructured prop with its default value
Default(prop, value) == IF prop.given THEN prop.v ELSE value

\* What React renders for the child {value && node} of an element when
\* value is a boolean: the node for true, nothing for false
BooleanAnd(value, node) == IF value THEN <<node>> ELSE <<>>

\* and when value is a number: the node when it is not 0, else the number
\* itself, which is rendered as its text
NumberAnd(value, node) ==
  IF value # 0 THEN <<node>> ELSE <<[tag |-> "text", text |-> "0"]>>

Greeting(p) ==
  LET years == Default(p.age, 18)
      isVip == Default(p.isVip, FALSE)
  IN [tag |-> "div",
      className |-> IF isVip THEN "greeting vip" ELSE "greeting regular",
      children |->
        <<[tag |-> "h2", name |-> p.name]>>
        \o NumberAnd(years, [tag |-> "p", age |-> years])
        \o BooleanAnd(isVip, [tag |-> "span", className |-> "vip-badge"])]

InitGreeting ==
  /\ CalcSettled(<<>>)
  /\ HookIdle /\ CounterIdle /\ DemoIdle /\ ProfileIdle /\ DashboardIdle
  /\ LaterIdle
  /\ props \in PropsSet
  /\ element = NoElement

\* <Greeting ... /> is rendered
RenderGreeting ==
  /\ element = NoElement
  /\ element' = Greeting(props)
  /\ UNCHANGED <<props, notGreeting>>

NextGreeting == RenderGreeting

SpecGreeting == InitGreeting /\ [][NextGreeting]_vars

(***************************************************************************)
(* Dashboard of week2_demo.  Effect 1 starts an interval timer and returns *)
(* the cleanup that clears it; Effect 2 starts a fetch.  Both run after the *)
(* mount, the cleanup runs at the unmount.  A state setter called for an   *)
(* instance that is no longer mounted changes nothing.                     *)
(***************************************************************************)
\* mounts of Dashboard in a behaviour
MaxDashMounts == 3

\* ticks shown by one mounted Dashboard
MaxTicks == 3

InitDashboard ==
  /\ CalcSettled(<<>>)
  /\ HookIdle /\ CounterIdle /\ DemoIdle /\ ProfileIdle /\ GreetingIdle
  /\ DashboardIdle
  /\ LaterIdle

\* the mount: the first render and the two effects
MountDashboard ==
  /\ ~dashMounted
  /\ dashMounts < MaxDashMounts
  /\ dashMounted' = TRUE
  /\ dashMounts' = dashMounts + 1
  /\ time' = 0
  /\ data' = "null"
  /\ created' = created + 1
  /\ timer' = created'
  /\ timers' = timers \cup {timer'}
  /\ fetching' = fetching \cup {dashMounts'}
  /\ UNCHANGED notDashboard

\* the callback of the interval timer id: setTime(new Date())
Tick(id) ==
  /\ id \in timers
  /\ time < MaxTicks
  /\ time' = IF dashMounted /\ id = timer THEN time + 1 ELSE time
  /\ UNCHANGED <<dashMounted, data, timers, timer, created, fetching,
                 dashMounts, notDashboard>>

\* the fetch of the mount m is answered: setData(data.message)
FetchResolves(m) ==
  /\ m \in fetching
  /\ fetching' = fetching \ {m}
  /\ data' = IF dashMounted /\ m = dashMounts THEN "message" ELSE data
  /\ UNCHANGED <<dashMounted, time, timers, timer, created, dashMounts,
                 notDashboard>>

\* the fetch of the mount m fails: the promise is rejected, no state is set
FetchFails(m) ==
  /\ m \in fetching
  /\ fetching' = fetching \ {m}
  /\ UNCHANGED <<dashMounted, time, data, timers, timer, created, dashMounts,
                 notDashboard>>

\* an unmount whose cleanup does not clear the timer
UnmountDashboard_NoCleanup ==
  /\ dashMounted
  /\ dashMounted' = FALSE
  /\ UNCHANGED <<time, data, timers, timer, created, fetching, dashMounts,
                 notDashboard>>

\* the unmount: the cleanup of Effect 1 runs, clearInterval(timer)
UnmountDashboard ==
  /\ dashMounted
  /\ dashMounted' = FALSE
  /\ timers' = timers \ {timer}
  /\ UNCHANGED <<time, data, timer, created, fetching, dashMounts,
                 notDashboard>>

NextDashboard ==
  \/ MountDashboard
  \/ \E id \in 1..MaxDashMounts : Tick(id)
  \/ \E m \in 1..MaxDashMounts : FetchResolves(m)
  \/ \E m \in 1..MaxDashMounts : FetchFails(m)
  \/ UnmountDashboard

SpecDashboard == InitDashboard /\ [][NextDashboard]_vars

\* a fetch in flight is answered or fails in the end
FetchCompletes ==
  \E m \in 1..MaxDashMounts : FetchResolves(m) \/ FetchFails(m)

SpecDashboardLive == SpecDashboard /\ WF_vars(FetchCompletes)

(***************************************************************************)
(* useLocalStorage (src/unnamed/part_000), used by CustomHookExamples for  *)
(* the preferences {theme, language} under the key 'userPreferences'.      *)
(* setValue computes the value to store from the storedValue of the render *)
(* its closure belongs to, queues it with setStoredValue and writes its    *)
(* JSON text to localStorage.                                              *)
(***************************************************************************)
MaxSetValues == 3

Light == <<"l", "i", "g", "h", "t">>

Dark == <<"d", "a", "r", "k">>

Preferences(theme, language) == [theme |-> theme, language |-> language]

\* the initialValue CustomHookExamples gives
InitialPreferences == Preferences(Light, <<"e", "n">>)

PreferenceSet ==
  {Preferences(t, l) : t \in {Light, Dark}, l \in {<<"e", "n">>, <<"f", "r">>}}

ThemeKey == "\"theme\":"

LanguageKey == "\"language\":"

\* JSON.stringify(valueToStore)
PreferencesJSON(p) ==
  <<"{", ThemeKey>> \o QuoteJSON(p.theme)
  \o <<",", LanguageKey>> \o QuoteJSON(p.language) \o <<"}">>

ParsedPreferences(t, theme, language) ==
  IF ~theme.ok \/ At(t, theme.p) # "," \/ At(t, theme.p + 1) # LanguageKey
  THEN JFail
  ELSE IF ~language.ok \/ At(t, language.p) # "}" \/ language.p # Len(t)
  THEN JFail
  ELSE JRes(TRUE, Preferences(theme.v, language.v), language.p + 1)

PreferencesAfterTheme(t, theme) ==
  ParsedPreferences(t, theme,
                    IF theme.ok THEN ReadString(t, theme.p + 2) ELSE JFail)

\* JSON.parse(item) for the text of the preferences
ParsePreferences(t) ==
  IF At(t, 1) # "{" \/ At(t, 2) # ThemeKey THEN JFail
  ELSE PreferencesAfterTheme(t, ReadString(t, 3))

Parsed(r) == IF r.ok THEN r.v ELSE InitialPreferences

\* the lazy initial state: the parsed item, the initialValue when there is
\* no item or JSON.parse throws
InitialState(item) ==
  IF Truthy(item) THEN Parsed(ParsePreferences(item.text))
  ELSE InitialPreferences

\* the argument of setValue: a value, or the updater of the Toggle Theme
\* button
Direct(v) == [fn |-> FALSE, v |-> v]

ToggleTheme == [fn |-> TRUE, v |-> InitialPreferences]

\* prev => ({...prev, theme: prev.theme === 'light' ? 'dark' : 'light'})
Toggled(prev) ==
  Preferences(IF prev.theme = Light THEN Dark ELSE Light, prev.language)

SetValueArgs == {ToggleTheme} \cup {Direct(p) : p \in PreferenceSet}

\* value instanceof Function ? value(storedValue) : value
ValueToStore(value, state, queue) ==
  IF value.fn THEN Toggled(state) ELSE value.v

\* what React's setState makes of the same argument
SetStateResult(value, prev) == IF value.fn THEN Toggled(prev) ELSE value.v

StoredItems ==
  {NoItem, Item(<<"{", "b", "a", "d">>)}
  \cup {Item(PreferencesJSON(p)) : p \in PreferenceSet}

InitLocalStorage ==
  /\ CalcSettled(<<>>)
  /\ EarlierIdle
  /\ NotificationsIdle /\ AuthIdle /\ FormIdle /\ FetchIdle
  /\ lsItem \in StoredItems
  /\ storedValue = InitialState(lsItem)
  /\ lsQueue = <<>>
  /\ lsExpected = storedValue
  /\ lsCalls = 0

setValue(value) ==
  /\ lsCalls < MaxSetValues
  /\ \E valueToStore \in {ValueToStore(value, storedValue, lsQueue)} :
       /\ lsQueue' = Append(lsQueue, valueToStore)
       /\ lsItem' = Item(PreferencesJSON(valueToStore))
  /\ lsExpected' = SetStateResult(value, lsExpected)
  /\ lsCalls' = lsCalls + 1
  /\ UNCHANGED storedValue
  /\ UNCHANGED notLocalStorage

\* React renders the component: the queued setStoredValue calls take effect
LocalStorageRender ==
  /\ lsQueue # <<>>
  /\ storedValue' = LastSet(storedValue, lsQueue)
  /\ lsQueue' = <<>>
  /\ UNCHANGED <<lsItem, lsExpected, lsCalls>>
  /\ UNCHANGED notLocalStorage

NextLocalStorage ==
  \/ \E value \in SetValueArgs : setValue(value)
  \/ LocalStorageRender

SpecLocalStorage == InitLocalStorage /\ [][NextLocalStorage]_vars

(***************************************************************************)
(* NotificationProvider (src/unnamed/part_000).  Every call of             *)
(* setNotifications passes an updater, so the queued updates chain and the *)
(* list is the one after all of them; time is counted in milliseconds and  *)
(* a timer fires when its delay has passed.                                *)
(***************************************************************************)
MaxAdds == 3

MaxNow == 4000

\* the instants the clock is looked at: every full second and the
\* millisecond after it
Instants ==
  {t \in {k * 1000 + j : k \in 0..(MaxNow \div 1000), j \in {0, 1}} : t <= MaxNow}

\* setTimeout(..., 3000)
Delay == 3000

\* Date.now().toString()
NowString(t) == NumberToString(Num(t, 1))

Notification(id, message, type) ==
  [id |-> id, message |-> message, type |-> type]

\* the arguments the consumers of the context call addNotification with
NotificationArgs ==
  {[message |-> "Saved", type |-> "success"],
   [message |-> "Failed", type |-> "error"]}

RECURSIVE WithoutId(_, _)
\* prev.filter(n => n.id !== id)
WithoutId(prev, id) ==
  IF prev = <<>> THEN <<>>
  ELSE IF Head(prev).id # id THEN <<Head(prev)>> \o WithoutId(Tail(prev), id)
  ELSE WithoutId(Tail(prev), id)

InitNotifications ==
  /\ CalcSettled(<<>>)
  /\ EarlierIdle
  /\ LocalStorageIdle /\ AuthIdle /\ FormIdle /\ FetchIdle
  /\ NotificationsIdle

addNotification(message, type) ==
  /\ added < MaxAdds
  /\ \E id \in {NowString(now)} :
       /\ notifications' = Append(notifications, Notification(id, message, type))
       /\ timeouts' =
            timeouts \cup {[handle |-> added + 1, id |-> id, due |-> now + Delay]}
  /\ added' = added + 1
  /\ UNCHANGED now
  /\ UNCHANGED notNotifications

removeNotification(id) ==
  /\ notifications' = WithoutId(notifications, id)
  /\ UNCHANGED <<timeouts, now, added>>
  /\ UNCHANGED notNotifications

\* a consumer removes one of the notifications it shows
Dismiss ==
  \E i \in 1..Len(notifications) : removeNotification(notifications[i].id)

\* the callback of setTimeout: removeNotification(id)
TimeoutFires(t) ==
  /\ t \in timeouts
  /\ t.due <= now
  /\ notifications' = WithoutId(notifications, t.id)
  /\ timeouts' = timeouts \ {t}
  /\ UNCHANGED <<now, added>>
  /\ UNCHANGED notNotifications

\* time passes, up to the next timer that is due
Advance(t) ==
  /\ t > now
  /\ t <= MaxNow
  /\ \A timeout \in timeouts : t <= timeout.due
  /\ now' = t
  /\ UNCHANGED <<notifications, timeouts, added>>
  /\ UNCHANGED notNotifications

NextNotifications ==
  \/ \E a \in NotificationArgs : addNotification(a.message, a.type)
  \/ Dismiss
  \/ \E t \in timeouts : TimeoutFires(t)
  \/ \E t \in Instants \cup {timeout.due : timeout \in timeouts} : Advance(t)

SpecNotifications == InitNotifications /\ [][NextNotifications]_vars

(***************************************************************************)
(* AuthProvider (src/unnamed/part_000): the user state, the item 'user' of *)
(* localStorage, login, logout and the effect that loads the saved user    *)
(* on mount.                                                               *)
(***************************************************************************)
MaxAuthCalls == 3

User(id, userName, email, role) ==
  [id |-> id, name |-> userName, email |-> email, role |-> role]

\* the users login is called with
Users ==
  {User(1, <<"A", "n", "n">>, <<"a", "@", "x", ".", "i", "o">>,
        <<"a", "d", "m", "i", "n">>),
   User(25, <<"B", "o">>, <<"b", "@", "x", ".", "i", "o">>,
        <<"u", "s", "e", "r">>)}

\* a user state that is not null
SomeUser(u) == [isNull |-> FALSE, v |-> u]

IdKey == "\"id\":"

NameKey == "\"name\":"

EmailKey == "\"email\":"

RoleKey == "\"role\":"

NullText == <<"n", "u", "l", "l">>

\* JSON.stringify(userData)
UserJSON(u) ==
  <<"{", IdKey>> \o IntDigits(u.id)
  \o <<",", NameKey>> \o QuoteJSON(u.name)
  \o <<",", EmailKey>> \o QuoteJSON(u.email)
  \o <<",", RoleKey>> \o QuoteJSON(u.role) \o <<"}">>

\* the member that follows a member ending before p: ',' key string
NextMember(t, before, key) ==
  IF ~before.ok \/ At(t, before.p) # "," \/ At(t, before.p + 1) # key
  THEN JFail
  ELSE ReadString(t, before.p + 2)

ParsedUser(t, id, userName, email, role) ==
  IF ~role.ok \/ At(t, role.p) # "}" \/ role.p # Len(t) THEN JFail
  ELSE JRes(TRUE, SomeUser(User(id.v, userName.v, email.v, role.v)), role.p + 1)

UserAfterEmail(t, id, userName, email) ==
  ParsedUser(t, id, userName, email, NextMember(t, email, RoleKey))

UserAfterName(t, id, userName) ==
  UserAfterEmail(t, id, userName, NextMember(t, userName, EmailKey))

UserAfterId(t, id) ==
  IF id.ok /\ At(t, id.p) = "," /\ At(t, id.p + 1) = NameKey
  THEN UserAfterName(t, id, ReadString(t, id.p + 2))
  ELSE JFail

\* the number written from p on up to the position end
ReadId(t, p, end) ==
  IF end = p \/ (end > p + 1 /\ t[p] = "0") THEN JFail
  ELSE JRes(TRUE, DigitsValue(t, p, end - 1), end)

\* JSON.parse(savedUser): null, a user, or a SyntaxError
ParseUser(t) ==
  IF t = NullText THEN JRes(TRUE, NoUser, 5)
  ELSE IF At(t, 1) # "{" \/ At(t, 2) # IdKey THEN JFail
  ELSE UserAfterId(t, ReadId(t, 3, RunEnd(t, 3, Digits)))

\* what the browser may hold under 'user' when the provider mounts
SavedUsers ==
  {NoItem, Item(<<>>), Item(<<"{", "b", "a", "d">>), Item(NullText)}
  \cup {Item(UserJSON(u)) : u \in Users}

InitAuth ==
  /\ CalcSettled(<<>>)
  /\ EarlierIdle
  /\ LocalStorageIdle /\ NotificationsIdle /\ FormIdle /\ FetchIdle
  /\ user = NoUser
  /\ userItem \in SavedUsers
  /\ authQueue = <<>>
  /\ authLoaded = FALSE
  /\ authCalls = 0

\* the body of the try block of the effect, with the saved text parsed
LoadSaved(parsed) ==
  IF parsed.ok
  THEN authQueue' = Append(authQueue, parsed.v) /\ UNCHANGED userItem
  ELSE userItem' = NoItem /\ UNCHANGED authQueue

\* the effect with the dependency list []
AuthMountEffect ==
  /\ ~authLoaded
  /\ authLoaded' = TRUE
  /\ IF Truthy(userItem) THEN LoadSaved(ParseUser(userItem.text))
     ELSE UNCHANGED <<userItem, authQueue>>
  /\ UNCHANGED <<user, authCalls>>
  /\ UNCHANGED notAuth

login(userData) ==
  /\ authCalls < MaxAuthCalls
  /\ authQueue' = Append(authQueue, SomeUser(userData))
  /\ userItem' = Item(UserJSON(userData))
  /\ authCalls' = authCalls + 1
  /\ UNCHANGED <<user, authLoaded>>
  /\ UNCHANGED notAuth

logout ==
  /\ authCalls < MaxAuthCalls
  /\ authQueue' = Append(authQueue, NoUser)
  /\ userItem' = NoItem
  /\ authCalls' = authCalls + 1
  /\ UNCHANGED <<user, authLoaded>>
  /\ UNCHANGED notAuth

\* React renders the provider: the queued setUser calls take effect
AuthRender ==
  /\ authQueue # <<>>
  /\ user' = LastSet(user, authQueue)
  /\ authQueue' = <<>>
  /\ UNCHANGED <<userItem, authLoaded, authCalls>>
  /\ UNCHANGED notAuth

NextAuth ==
  \/ AuthMountEffect
  \/ \E userData \in Users : login(userData)
  \/ logout
  \/ AuthRender

SpecAuth == InitAuth /\ [][NextAuth]_vars

(***************************************************************************)
(* UserForm (src/unnamed/part_000).  Change and submit events are discrete *)
(* events: React renders their state updates before the next event is      *)
(* handled, so each handler acts on the state of the latest render.  The   *)
(* simulated API call of a submission is answered later, by its timer.     *)
(***************************************************************************)
MaxFormEvents == 5

Whitespace == {" "}

RECURSIVE TrimStart(_)
TrimStart(s) ==
  IF s # <<>> /\ Head(s) \in Whitespace THEN TrimStart(Tail(s)) ELSE s

RECURSIVE TrimEnd(_)
TrimEnd(s) ==
  IF s # <<>> /\ s[Len(s)] \in Whitespace
  THEN TrimEnd(SubSeq(s, 1, Len(s) - 1))
  ELSE s

\* String.prototype.trim
Trim(s) == TrimEnd(TrimStart(s))

NonSpace(c) == c # "" /\ c \notin Whitespace

\* /\S+@\S+\.\S+/.test(s): a non-space character, '@', a run of non-space
\* characters, '.', and a non-space character
EmailTest(s) ==
  \E a \in 2..Len(s) :
    /\ s[a] = "@"
    /\ NonSpace(s[a - 1])
    /\ \E b \in (a + 2)..(Len(s) - 1) :
         /\ s[b] = "."
         /\ NonSpace(s[b + 1])
         /\ \A k \in (a + 1)..(b - 1) : NonSpace(s[k])

Error(field, message) == [field |-> field, message |-> message]

\* newErrors of validateForm
NewErrors(form) ==
  (IF Trim(form.firstName) = <<>>
   THEN {Error("firstName", "First name is required")} ELSE {})
  \cup (IF Trim(form.lastName) = <<>>
        THEN {Error("lastName", "Last name is required")} ELSE {})
  \cup (IF Trim(form.email) = <<>>
        THEN {Error("email", "Email is required")}
        ELSE IF ~EmailTest(form.email)
        THEN {Error("email", "Email is invalid")} ELSE {})
  \cup (IF form.age < 18
        THEN {Error("age", "Must be at least 18 years old")} ELSE {})

\* v || 0 for a number v
OrZero(v) == IF v.nan THEN 0 ELSE v.n

\* what is typed into the text inputs and into the number input
NameTexts == {<<>>, <<" ">>, <<"A", "l">>}

EmailTexts == {<<>>, <<"a", "@", "b">>, <<"a", "@", "b", ".", "c">>}

AgeTexts == {<<>>, <<"1", "7">>, <<"1", "8">>}

InitForm ==
  /\ CalcSettled(<<>>)
  /\ EarlierIdle
  /\ LocalStorageIdle /\ NotificationsIdle /\ AuthIdle /\ FetchIdle
  /\ FormIdle

updateField(field, value) ==
  /\ formEvents < MaxFormEvents
  /\ formEvents' = formEvents + 1
  /\ formData' = [formData EXCEPT ![field] = value]
  /\ errors' = {e \in errors : e.field # field}
  /\ UNCHANGED <<isSubmitting, inFlight, submitted>>
  /\ UNCHANGED notForm

\* the submit button: disabled={isSubmitting}
SubmitEnabled == ~isSubmitting

\* handleSubmit up to its await, with the newErrors of validateForm
StartSubmit_NoValidation(newErrors) ==
  /\ isSubmitting' = TRUE
  /\ inFlight' = inFlight + 1
  /\ submitted' = formData

StartSubmit(newErrors) ==
  IF newErrors # {} THEN UNCHANGED <<isSubmitting, inFlight, submitted>>
  ELSE /\ isSubmitting' = TRUE
       /\ inFlight' = inFlight + 1
       /\ submitted' = formData

handleSubmit ==
  /\ SubmitEnabled
  /\ formEvents < MaxFormEvents
  /\ formEvents' = formEvents + 1
  /\ \E newErrors \in {NewErrors(formData)} :
       /\ errors' = newErrors
       /\ StartSubmit(newErrors)
  /\ UNCHANGED formData
  /\ UNCHANGED notForm

\* the timer of the simulated API call fires: handleSubmit after its await
SubmitCompletes ==
  /\ inFlight > 0
  /\ inFlight' = inFlight - 1
  /\ formData' = EmptyForm
  /\ isSubmitting' = FALSE
  /\ UNCHANGED <<errors, submitted, formEvents>>
  /\ UNCHANGED notForm

NextForm ==
  \/ \E text \in NameTexts : updateField("firstName", text)
  \/ \E text \in NameTexts : updateField("lastName", text)
  \/ \E text \in EmailTexts : updateField("email", text)
  \/ \E text \in AgeTexts : updateField("age", OrZero(ParseInt(text)))
  \/ handleSubmit
  \/ SubmitCompletes

SpecForm == InitForm /\ [][NextForm]_vars

\* the timer of a submission fires after its 2 seconds
SpecFormLive == SpecForm /\ WF_vars(SubmitCompletes)

(***************************************************************************)
(* useFetchData and DataDisplay (week2_demo/src/components/DataDisplay.tsx)*)
(* The effect fetches the url at the mount and after every render with a   *)
(* new url; nothing cancels a fetch, and every response that arrives is    *)
(* given to setData.  The responses arrive in any order.                   *)
(***************************************************************************)
MaxUrlChanges == 3

Urls == {"url1", "url2", "url3"}

\* response.json() of the fetch of u
ResponseFor(u) == [url1 |-> "data1", url2 |-> "data2", url3 |-> "data3"][u]

\* the sequence s without its i-th element
Without(s, i) == SubSeq(s, 1, i - 1) \o SubSeq(s, i + 1, Len(s))

\* DataDisplay is mounted with a url and its effect has called fetch
InitFetch ==
  /\ CalcSettled(<<>>)
  /\ EarlierIdle
  /\ LocalStorageIdle /\ NotificationsIdle /\ AuthIdle /\ FormIdle
  /\ url \in Urls
  /\ fetched = "null"
  /\ requests = <<url>>
  /\ urlChanges = 0

\* the parent renders DataDisplay with another newUrl: the effect runs again
ChangeUrl(newUrl) ==
  /\ urlChanges < MaxUrlChanges
  /\ newUrl # url
  /\ url' = newUrl
  /\ requests' = Append(requests, newUrl)
  /\ urlChanges' = urlChanges + 1
  /\ UNCHANGED fetched
  /\ UNCHANGED notFetch

\* the i-th pending fetch is answered: setData(data)
Respond(i) ==
  /\ i \in 1..Len(requests)
  /\ fetched' = ResponseFor(requests[i])
  /\ requests' = Without(requests, i)
  /\ UNCHANGED <<url, urlChanges>>
  /\ UNCHANGED notFetch

\* what DataDisplay shows
Displayed == IF fetched = "null" THEN "Loading..." ELSE fetched

NextFetch ==
  \/ \E newUrl \in Urls : ChangeUrl(newUrl)
  \/ \E i \in 1..MaxUrlChanges + 1 : Respond(i)

SpecFetch == InitFetch /\ [][NextFetch]_vars

(***************************************************************************)
(* The evaluator of the specification (sections 4.1, 4.2 and 7), the       *)
(* standard arithmetic the calculator is compared with: exact rationals,   *)
(*   expression := term (('+' | '-') term)*                                *)
(*   term       := factor (('*' | '/') factor)*                            *)
(*   factor     := NUMBER | '(' expression ')' | '-' factor                *)
(* k is "ok" or the kind of the error; n/d the value; p the position       *)
(* after the phrase.                                                       *)
(***************************************************************************)
AllowedChars == Digits \cup {".", " ", "+", "-", "*", "/", "(", ")"}

RRes(k, n, d, p) == [k |-> k, n |-> n, d |-> d, p |-> p]

RErr(kind) == RRes(kind, 0, 1, 0)

\* n/d in lowest terms with d > 0
Rat(n, d, p) ==
  LET g == Gcd(Abs(n), Abs(d))
      sgn == IF d < 0 THEN -1 ELSE 1
  IN RRes("ok", sgn * (n \div g), sgn * (d \div g), p)

RefApply(op, a, b, p) ==
  CASE op = "+" -> Rat(a.n * b.d + b.n * a.d, a.d * b.d, p)
    [] op = "-" -> Rat(a.n * b.d - b.n * a.d, a.d * b.d, p)
    [] op = "*" -> Rat(a.n * b.n, a.d * b.d, p)
    [] op = "/" -> IF b.n = 0 THEN RErr("DivisionByZero")
                   ELSE Rat(a.n * b.d, a.d * b.n, p)

\* a Number token: a maximal run of digits with at most one decimal point
RefNumber(s, p) ==
  LET ie == RunEnd(s, p, Digits)
      hasDot == At(s, ie) = "."
      fe == IF hasDot THEN RunEnd(s, ie + 1, Digits) ELSE ie
      fracLen == IF hasDot THEN fe - ie - 1 ELSE 0
      scale == Pow10(fracLen)
  IN IF fe - p = (IF hasDot THEN 1 ELSE 0) THEN RErr("UnexpectedToken")
     ELSE Rat(DigitsValue(s, p, ie - 1) * scale + DigitsValue(s, ie + 1, fe - 1),
              scale, fe)

RECURSIVE RefFactor(_, _), RefTermLoop(_, _), RefExprLoop(_, _)
RefTerm(s, p) ==
  LET l == RefFactor(s, p) IN IF l.k # "ok" THEN l ELSE RefTermLoop(s, l)

RefExpression(s, p) ==
  LET l == RefTerm(s, p) IN IF l.k # "ok" THEN l ELSE RefExprLoop(s, l)

RefFactor(s, p) ==
  IF p > Len(s) THEN RErr("UnexpectedToken")
  ELSE IF s[p] \in Digits \cup {"."} THEN RefNumber(s, p)
  ELSE IF s[p] = "-"
       THEN LET f == RefFactor(s, p + 1)
            IN IF f.k # "ok" THEN f ELSE Rat(-f.n, f.d, f.p)
  ELSE IF s[p] = "("
       THEN LET e == RefExpression(s, p + 1)
            IN IF e.k # "ok" THEN e
               ELSE IF At(s, e.p) = ")" THEN Rat(e.n, e.d, e.p + 1)
               ELSE RErr("UnbalancedParentheses")
  ELSE IF s[p] = ")" THEN RErr("UnbalancedParentheses")
  ELSE RErr("UnexpectedToken")

RefTermLoop(s, l) ==
  IF At(s, l.p) \in {"*", "/"}
  THEN LET r == RefFactor(s, l.p + 1)
           v == RefApply(s[l.p], l, r, r.p)
       IN IF r.k # "ok" THEN r
          ELSE IF v.k # "ok" THEN v
          ELSE RefTermLoop(s, v)
  ELSE l

RefExprLoop(s, l) ==
  IF At(s, l.p) \in {"+", "-"}
  THEN LET r == RefTerm(s, l.p + 1)
       IN IF r.k # "ok" THEN r
          ELSE RefExprLoop(s, RefApply(s[l.p], l, r, r.p))
  ELSE l

\* evaluate(expression) of the specification
RefEvaluate(text) ==
  LET s == SelectSeq(text, LAMBDA c : c # " ")
      e == RefExpression(s, 1)
  IN IF \E i \in 1..Len(text) : text[i] \notin AllowedChars
     THEN RErr("InvalidCharacter")
     ELSE IF s = <<>> THEN RErr("EmptyExpression")
     ELSE IF e.k # "ok" THEN e
     ELSE IF e.p > Len(s) THEN e
     ELSE IF s[e.p] = ")" THEN RErr("UnbalancedParentheses")
     ELSE RErr("UnexpectedToken")

\* the display form of the value of the specification's evaluator
RefString(r) ==
  IF IsDecimal(r.d) THEN NumberToString(Num(r.n, r.d)) ELSE <<"?">>

(***************************************************************************)
(* Properties.                                                             *)
(***************************************************************************)
BinaryOperators == {"+", "-", "*", "/"}

\* NUMBER (op NUMBER)* over non-negative integers
IsIntegerExpression(s) ==
  /\ s # <<>>
  /\ \A i \in 1..Len(s) : s[i] \in Digits \cup BinaryOperators
  /\ s[1] \in Digits /\ s[Len(s)] \in Digits
  /\ \A i \in 1..(Len(s) - 1) :
       s[i] \in BinaryOperators => s[i + 1] \in Digits

Operators(s) == {s[i] : i \in {j \in 1..Len(s) : s[j] \in BinaryOperators}}

OperatorCount(s) == Cardinality({j \in 1..Len(s) : s[j] \in BinaryOperators})

\* a chain of two or more operators of one precedence level
IsChain(s) ==
  /\ IsIntegerExpression(s)
  /\ OperatorCount(s) >= 2
  /\ (Operators(s) \subseteq {"+", "-"} \/ Operators(s) \subseteq {"*", "/"})

\* some minus sign stands where a factor begins
HasUnaryMinus(s) ==
  \E i \in 1..Len(s) : s[i] = "-" /\ (i = 1 \/ s[i - 1] \in BinaryOperators)

\* no number of several digits begins with 0
NoLeadingZero(s) ==
  \A i \in 1..Len(s) :
    (s[i] = "0" /\ At(s, i - 1) \notin Digits \cup {"."})
      => At(s, i + 1) \notin Digits

NonFinite == {Infinity, <<"-">> \o Infinity, NaN}

\* C1: for every input that is a valid expression over non-negative
\* integers and + - * / without division by zero, '=' yields its value
\* under standard arithmetic: the calculation does not fail, and the
\* record and the display hold that value.
C1_ValidExpressionsEvaluate ==
  /\ error # "" =>
       ~(IsIntegerExpression(input) /\ RefEvaluate(input).k = "ok")
  /\ \A i \in 1..Len(history) :
       LET c == history[i]
           r == RefEvaluate(c.expression)
       IN (IsIntegerExpression(c.expression) /\ r.k = "ok")
            => c.result = RefString(r)

\* C2: the four binary operators associate to the left: the result
\* recorded for a chain of operators of one precedence level is the value
\* of the chain grouped from the left.
C2_LeftAssociative ==
  \A i \in 1..Len(history) :
    LET c == history[i]
        r == RefEvaluate(c.expression)
    IN (IsChain(c.expression) /\ r.k = "ok") => c.result = RefString(r)

C2_Witness ==
  /\ history # <<>>
  /\ history[1] = Calculation(<<"4", "-", "3", "-", "2">>, <<"-", "1">>)

\* C3: a minus sign may precede any factor, also after a binary operator
\* and repeated: every such expression is accepted and evaluates to the
\* value the grammar factor := '-' factor gives it.
C3_UnaryMinusAccepted ==
  /\ error # "" =>
       ~(HasUnaryMinus(input) /\ NoLeadingZero(input)
           /\ RefEvaluate(input).k = "ok")
  /\ \A i \in 1..Len(history) :
       LET c == history[i]
           r == RefEvaluate(c.expression)
       IN (HasUnaryMinus(c.expression) /\ NoLeadingZero(c.expression)
             /\ r.k = "ok")
            => c.result = RefString(r)

\* C4: no calculation produces Infinity or NaN: neither the display nor a
\* record of the history holds one.
C4_NoInfinityOrNaN ==
  /\ input \notin NonFinite
  /\ \A i \in 1..Len(history) : history[i].result \notin NonFinite

\* C5: a calculation that fails raises the alert, stays in the handler,
\* adds no record and leaves the input as it was.
C5_FailureKeepsState ==
  [][(handleCalculate /\ EvalToString(input).t = "throw")
       => /\ alert' = "Invalid Expression"
          /\ pc' = "ready"
          /\ history' = history
          /\ stored' = stored
          /\ input' = input]_vars

C5_Witness ==
  /\ alert = "Invalid Expression"
  /\ input # <<>>
  /\ history # <<>>

C8_OnlyCompleteExpressions ==
  \A i \in 1..Len(history) :
    LET c == history[i]
    IN (\A j \in 1..Len(c.expression) : c.expression[j] \in AllowedChars)
         => RefEvaluate(c.expression).k \in {"ok", "DivisionByZero"}

\* C9: an input that holds a character other than digits, '.', blanks and
\* + - * / ( ) is never evaluated, whatever wrote it: no record holds such
\* an expression.
C9_InvalidCharactersRejected ==
  \A i \in 1..Len(history) :
    \A j \in 1..Len(history[i].expression) :
      history[i].expression[j] \in AllowedChars

IsNumeral(s) ==
  LET body == IF At(s, 1) = "-" THEN Tail(s) ELSE s
  IN /\ body # <<>>
     /\ \A i \in 1..Len(body) : body[i] \in Digits \cup {"."}
     /\ Cardinality({i \in 1..Len(body) : body[i] = "."}) <= 1
     /\ body[1] \in Digits
     /\ body[Len(body)] \in Digits

\* C11: every '=' ends in exactly one outcome, a single numeric result or
\* a reported error: every result a calculation records and displays is
\* the string of a number.
C11_SingleNumericResult ==
  \A i \in 1..Len(history) :
    history[i].result \in NonFinite \/ IsNumeral(history[i].result)

\* C12: C sets the input to the empty string and leaves the history
\* unchanged, and a valid expression keyed in afterwards evaluates
\* successfully.  C leaves the empty input and the keys only append to it,
\* so the inputs keyed in after C are the inputs the keypad can build: '='
\* on any of them that is a valid expression reports no error.
C12_ClearRecovers ==
  [][/\ handleClear => (input' = <<>> /\ history' = history)
     /\ (handleCalculate /\ RefEvaluate(input).k = "ok") => error' = ""]_vars

\* C13: useCalculator returns the context value {history, addCalculation}
\* only under a CalculatorProvider; with no provider above it throws the
\* error 'useCalculator must be used within a CalculatorProvider' and returns
\* nothing.
C13_HookNeedsProvider ==
  /\ returned.kind = "returned" =>
       /\ provided
       /\ returned.value.defined
       /\ returned.value.history = history
       /\ returned.value.addCalculation = "addCalculation"
  /\ returned.kind = "threw" =>
       /\ ~provided
       /\ returned.message
            = "useCalculator must be used within a CalculatorProvider"
  /\ (returned # NotCalled /\ ~provided) => returned.kind = "threw"

C13_Witness ==
  /\ ~provided
  /\ returned.kind = "threw"
  /\ history # <<>>

\* the count once the queued updates are rendered
Settled == ApplyUpdates(count, countQueue)

\* C14: increment adds exactly the current step to count, decrement
\* subtracts exactly the current step, reset sets count to 0; none of the
\* three changes step, and a decrement right after an increment with the
\* same step restores the count before the two.
C14_CounterArithmetic ==
  [][/\ increment => Settled' = Settled + step
     /\ decrement => Settled' = Settled - step
     /\ reset => Settled' = 0
     /\ (increment \/ decrement \/ reset)
          => (step' = step /\ stepQueue' = stepQueue)
     /\ (decrement /\ countQueue # <<>>
           /\ countQueue[Len(countQueue)] = Updater(step))
          => Settled' = ApplyUpdates(count, SubSeq(countQueue, 1, Len(countQueue) - 1))
    ]_vars

C14_Witness ==
  /\ step = 3
  /\ countQueue = <<Updater(3), Updater(-3)>>
  /\ count = 3

\* C15: k increments and m decrements dispatched with one step, in any
\* interleaving with the renders, change count by exactly (k - m) * step:
\* no update is lost, also when several are dispatched before one render.
C15_NoLostUpdate ==
  /\ Settled = base + (incs - decs) * step
  /\ countQueue = <<>> => count = base + (incs - decs) * step

C15_Witness ==
  /\ incs = 2
  /\ decs = 0
  /\ step = 3
  /\ countQueue = <<>>
  /\ count = base + 6

\* C16: step is an integer >= 1 in every reachable state, whatever text is
\* entered in the step input.
C16_StepPositive == step >= 1

\* C17: count starts at 100 and every click of Increment raises it by
\* exactly 15: once the clicks are rendered, count is 100 + 15k after k
\* clicks, also when several clicks are handled before one render.
C17_FifteenPerClick ==
  /\ demoClicks = 0 => demoCount = 100
  /\ demoQueue = <<>> => demoCount = 100 + 15 * demoClicks

\* C18: the effect that updates name and age runs once, on mount: whenever
\* the component has settled after it, name and age are the ones the mount
\* effect set, however many times the button has toggled isLoggedIn.
C18_EffectRunsOnce ==
  (mountDone /\ profileQueue = <<>> /\ ~effectDue)
    => (name = Hello \o ObjectToString /\ age = 31)

\* the children of the rendered element with the tag tg
ChildrenWith(tg) ==
  {i \in 1..Len(element.children) : element.children[i].tag = tg}

\* the age and the VIP flag Greeting is to use for its props
AgeOf(p) == IF p.age.given THEN p.age.v ELSE 18

IsVipOf(p) == IF p.isVip.given THEN p.isVip.v ELSE FALSE

\* C19 as stated: age defaults to 18 and isVip to false; the age paragraph
\* is rendered exactly when age is truthy, and for a falsy age (0) nothing
\* at all is rendered in its place; the VIP badge is rendered exactly when
\* isVip is true, and the class is 'greeting vip' or 'greeting regular'.
C19_GreetingRendering ==
  element # NoElement =>
    /\ Cardinality(ChildrenWith("h2")) = 1
    /\ Cardinality(ChildrenWith("p")) = (IF AgeOf(props) # 0 THEN 1 ELSE 0)
    /\ \A i \in ChildrenWith("p") : element.children[i].age = AgeOf(props)
    /\ Cardinality(ChildrenWith("span")) = (IF IsVipOf(props) THEN 1 ELSE 0)
    /\ ChildrenWith("text") = {}
    /\ element.className
         = (IF IsVipOf(props) THEN "greeting vip" ELSE "greeting regular")

\* C20: the Dashboard starts exactly one interval timer per mount and
\* clears it on unmount: while it is mounted exactly one timer is active,
\* the one its cleanup holds; while it is not, none is, and no step changes
\* the time state.
C20_OneTimerPerMount ==
  /\ [](/\ created = dashMounts
        /\ dashMounted => timers = {timer}
        /\ ~dashMounted => timers = {})
  /\ [][(~dashMounted /\ ~dashMounted') => time' = time]_vars

C20_Witness ==
  /\ ~dashMounted
  /\ dashMounts = 2
  /\ time = 2
  /\ timers = {}

\* a is a contiguous sub-list of b
IsSubList(a, b) ==
  \E k \in 0..(Len(b) - Len(a)) : SubSeq(b, k + 1, k + Len(a)) = a

\* C26: no calculator action (keypad press, C, failed or successful '=')
\* removes, modifies or reorders a history record: the history before the
\* action is a contiguous sub-list of the history after it, its length
\* grows by at most one, and only a successful '=' makes it grow.
C26_HistoryOnlyGrows ==
  [][((\E value \in Keys : handleButtonClick(value))
        \/ handleClear \/ handleCalculate)
       => /\ IsSubList(history, history')
          /\ Len(history') <= Len(history) + 1
          /\ Len(history') > Len(history)
               => (handleCalculate /\ EvalToString(input).t = "str")]_vars

C26_Witness ==
  /\ pc = "ready"
  /\ Len(history) = 2
  /\ history[1] # history[2]

\* the records of the list stored in the item
StoredRecords(item) ==
  IF Truthy(item) /\ JSONParse(item.text).ok
  THEN {JSONParse(item.text).v[i] : i \in 1..Len(JSONParse(item.text).v)}
  ELSE {}

\* C27: mounting CalculatorProvider never loses persisted records: at no
\* step of the mount sequence does the stored value lack a record that was
\* stored before the mount, and the history after the sequence contains
\* them all.
C27_MountKeepsRecords ==
  /\ StoredRecords(atMount) \subseteq StoredRecords(stored)
  /\ pc = "ready" =>
       StoredRecords(atMount) \subseteq {history[i] : i \in 1..Len(history)}

\* C21: the Dashboard issues its fetch once per mount; data is null until
\* that fetch completes, and once the request is issued the data state is in
\* the end updated with the fetched message, so that the component (as long
\* as it stays mounted) leaves the loading state.
C21_FetchLeavesLoading ==
  /\ []((dashMounted /\ dashMounts \in fetching) => data = "null")
  /\ [](fetching \subseteq 1..dashMounts)
  /\ (dashMounted /\ dashMounts \in fetching)
       ~> (data = "message" \/ ~dashMounted)

\* C22: setValue behaves as React's setState: functional updates issued
\* before a re-render are each applied to the result of the previous one,
\* so the value the hook holds once the calls are rendered is the one
\* setState gives for them, and after every setValue the JSON text stored
\* under the key is the text of that value.
C22_SetValueLikeSetState ==
  lsCalls > 0 =>
    /\ LastSet(storedValue, lsQueue) = lsExpected
    /\ lsItem = Item(PreferencesJSON(LastSet(storedValue, lsQueue)))

\* C22, the part that holds: the stored text is the text of the value the
\* hook holds once the calls are rendered.
C22_StoredIsState ==
  lsCalls > 0 => lsItem = Item(PreferencesJSON(LastSet(storedValue, lsQueue)))

\* C23: every notification is removed 3 seconds after it was added at the
\* latest, and the removal by a timer removes only the notification the
\* timer was set for: the list loses at most one notification when a
\* timer fires, and every other step leaves the other notifications alone.
C23_TimerRemovesOnlyItsOwn ==
  /\ [](\A i \in 1..Len(notifications) :
          \E t \in timeouts : t.id = notifications[i].id /\ now <= t.due)
  /\ [][\A t \in timeouts :
          TimeoutFires(t) => Len(notifications') >= Len(notifications) - 1]_vars

\* C23, the part that holds: a notification in the list has a timer that
\* is not yet overdue, so it is removed when its 3 seconds have passed.
C23_RemovedInTime ==
  \A i \in 1..Len(notifications) :
    \E t \in timeouts : t.id = notifications[i].id /\ now <= t.due

\* the stored entry and the user state u agree: the entry is present
\* exactly when u is not null, and then it reads back as u
Agree(item, u) ==
  /\ item.has <=> ~u.isNull
  /\ item.has => (ParseUser(item.text).ok /\ ParseUser(item.text).v = u)

\* C24: once the mount effect has run, the stored 'user' entry and the
\* user state (with the setUser calls made so far) agree: the entry is
\* present exactly when user is not null and then holds that user; an
\* entry that cannot be parsed is removed by the mount effect, which then
\* sets no user.
C24_EntryAgreesWithUser ==
  /\ [](authLoaded => Agree(userItem, LastSet(user, authQueue)))
  /\ [][(AuthMountEffect /\ userItem.has /\ ~ParseUser(userItem.text).ok)
          => (userItem' = NoItem /\ authQueue' = authQueue)]_vars

\* C24, the part that holds: the entry and the user state agree once
\* login or logout has been called.
C24_AgreeAfterCall ==
  (authLoaded /\ authCalls > 0) => Agree(userItem, LastSet(user, authQueue))

NonBlank(s) == \E i \in 1..Len(s) : s[i] # " "

\* an '@' with a '.' somewhere after it
HasAtAndDot(s) == \E i, j \in 1..Len(s) : i < j /\ s[i] = "@" /\ s[j] = "."

C28_LatestUrlWins ==
  /\ [](requests = <<>> => Displayed = ResponseFor(url))
  /\ [][(fetched = ResponseFor(url) /\ url' = url) => fetched' = fetched]_vars

\* C28, the part that holds: the data held is null or the response for a
\* url that was given.
C28_ResponseOfSomeUrl == fetched = "null" \/ \E u \in Urls : fetched = ResponseFor(u)

====
